---- MODULE Spec2Model ----
(***************************************************************************)
(* A model of docs-kb: the manifest diff (compare_files) and the sync      *)
(* pipeline (sync_repository / process_changes / update_repository_files)  *)
(* of src/docs_kb/commands/sync.py, over the Repository table of           *)
(* src/docs_kb/core/models.py, the upstream listing of                     *)
(* src/docs_kb/core/file_loader.py and one knowledge-base collection.      *)
(*                                                                         *)
(* Specifications:                                                         *)
(*   SpecDiff  compare_files as a pure function of two bounded manifests;  *)
(*   SpecDup   compare_files over longer manifests with repeated paths;    *)
(*   Spec      sequences of sync runs against a tracked repository, with   *)
(*             upstream changes, per-path delete failures, per-path fetch  *)
(*             failures and gateway failures;                              *)
(*   SpecRetry a sync run and the sync run that follows it;                *)
(*   SpecConc  two sync runs of the same repository, interleaved;          *)
(*   SpecGone  sync runs beside a deletion of the repository;              *)
(*   SpecName  the knowledge-base name of a repository and branch          *)
(*             (src/docs_kb/core/mindsdb_client.py, mcp_server/server.py); *)
(*   SpecRepo  the ingest command (src/docs_kb/commands/ingest.py) and the *)
(*             deletion of a repository (src/docs_kb/commands/manage.py).  *)
(***************************************************************************)
EXTENDS Integers, Sequences, FiniteSets, TLC

(***************************************************************************)
(* Bounds of the model                                                     *)
(***************************************************************************)
\* longest manifest handed to compare_files in SpecDiff
MaxLen == 2
\* sync runs started in one behaviour of Spec
MaxSyncs == 2
\* upstream pushes in one behaviour of Spec
MaxUpstreamChanges == 2
\* longest repository name handed to _get_kb_name in SpecName
MaxNameLen == 3
\* ingest and delete commands started in one behaviour of SpecRepo
MaxCommands == 2

\* longest manifest handed to compare_files in SpecDup
MaxDupLen == 3

\* repository-relative paths, in the order the upstream tree lists them
PathOrder == <<"a.md", "b.md">>
Paths == {PathOrder[i] : i \in 1..Len(PathOrder)}
\* blob checksums
Shas == {1, 2}
\* byte lengths
Sizes == {10, 20}

(***************************************************************************)
(* Data model                                                              *)
(***************************************************************************)
\* "no such file" in an upstream tree or in the index
NoSha == 0
\* Repository.last_ingested = None: never synced
NoTime == 0

\* a file dict as discover_files returns it and as Repository.files stores it
Entries == [path : Paths, sha : Shas, size : Sizes]

\* the size of the blob with checksum s (equal checksums are equal contents)
SizeOf(s) == 10 * s

RECURSIVE SeqsUpTo(_, _)
SeqsUpTo(S, n) ==
  IF n = 0 THEN {<<>>}
  ELSE LET shorter == SeqsUpTo(S, n - 1)
       IN  shorter \cup {Append(q, e) : q \in {x \in shorter : Len(x) = n - 1}, e \in S}

\* every manifest of at most MaxLen entries, duplicate paths included
Manifests == SeqsUpTo(Entries, MaxLen)

PathsOf(files) == {files[i].path : i \in 1..Len(files)}
PathSeq(files) == [i \in 1..Len(files) |-> files[i].path]
UniquePaths(files) ==
  \A i, j \in 1..Len(files) : files[i].path = files[j].path => i = j

(***************************************************************************)
(* compare_files (sync.py 159-191)                                         *)
(***************************************************************************)
HasKey(d, p) == \E i \in 1..Len(d) : d[i].path = p
Get(d, p) == d[CHOOSE i \in 1..Len(d) : d[i].path = p]

\* a faulty dict: a new key is put in front of the others
RECURSIVE DictOf_prepend(_)
DictOf_prepend(files) ==
  IF files = <<>> THEN <<>>
  ELSE LET d == DictOf_prepend(SubSeq(files, 1, Len(files) - 1))
           f == files[Len(files)]
       IN  IF HasKey(d, f.path)
           THEN [i \in 1..Len(d) |-> IF d[i].path = f.path THEN f ELSE d[i]]
           ELSE <<f>> \o d

\* a faulty dict: a key keeps the value of its first insertion
RECURSIVE DictOf_first_value(_)
DictOf_first_value(files) ==
  IF files = <<>> THEN <<>>
  ELSE LET d == DictOf_first_value(SubSeq(files, 1, Len(files) - 1))
           f == files[Len(files)]
       IN  IF HasKey(d, f.path) THEN d ELSE Append(d, f)

\* {file["path"]: file for file in files}: a Python dict keeps the position of
\* a key's first insertion and the value of its last
RECURSIVE DictOf(_)
DictOf(files) ==
  IF files = <<>> THEN <<>>
  ELSE LET d == DictOf(SubSeq(files, 1, Len(files) - 1))
           f == files[Len(files)]
       IN  IF HasKey(d, f.path)
           THEN [i \in 1..Len(d) |-> IF d[i].path = f.path THEN f ELSE d[i]]
           ELSE Append(d, f)

compare_files_by_size(stored_files, current_files) ==
  LET stored_lookup == DictOf(stored_files)
      current_lookup == DictOf(current_files)
      IsNew(f) == ~HasKey(stored_lookup, f.path)
      IsModified(f) == /\ HasKey(stored_lookup, f.path)
                       /\ \/ Get(stored_lookup, f.path).sha # f.sha
                          \/ Get(stored_lookup, f.path).size # f.size
      IsUnchanged(f) == /\ HasKey(stored_lookup, f.path)
                        /\ Get(stored_lookup, f.path).sha = f.sha
                        /\ Get(stored_lookup, f.path).size = f.size
      IsDeleted(f) == ~HasKey(current_lookup, f.path)
  IN  [new |-> SelectSeq(current_lookup, IsNew),
       modified |-> SelectSeq(current_lookup, IsModified),
       deleted |-> SelectSeq(stored_lookup, IsDeleted),
       unchanged |-> SelectSeq(current_lookup, IsUnchanged)]

compare_files_no_deleted(stored_files, current_files) ==
  LET stored_lookup == DictOf(stored_files)
      current_lookup == DictOf(current_files)
      IsNew(f) == ~HasKey(stored_lookup, f.path)
      IsModified(f) == /\ HasKey(stored_lookup, f.path)
                       /\ Get(stored_lookup, f.path).sha # f.sha
      IsUnchanged(f) == /\ HasKey(stored_lookup, f.path)
                        /\ Get(stored_lookup, f.path).sha = f.sha
  IN  [new |-> SelectSeq(current_lookup, IsNew),
       modified |-> SelectSeq(current_lookup, IsModified),
       deleted |-> <<>>,
       unchanged |-> SelectSeq(current_lookup, IsUnchanged)]

compare_files_inverted(stored_files, current_files) ==
  LET stored_lookup == DictOf(stored_files)
      current_lookup == DictOf(current_files)
      IsNew(f) == ~HasKey(stored_lookup, f.path)
      IsModified(f) == /\ HasKey(stored_lookup, f.path)
                       /\ Get(stored_lookup, f.path).sha = f.sha
      IsUnchanged(f) == /\ HasKey(stored_lookup, f.path)
                        /\ Get(stored_lookup, f.path).sha # f.sha
      IsDeleted(f) == ~HasKey(current_lookup, f.path)
  IN  [new |-> SelectSeq(current_lookup, IsNew),
       modified |-> SelectSeq(current_lookup, IsModified),
       deleted |-> SelectSeq(stored_lookup, IsDeleted),
       unchanged |-> SelectSeq(current_lookup, IsUnchanged)]

compare_files_early_return(stored_files, current_files) ==
  LET stored_lookup == DictOf(stored_files)
      current_lookup == DictOf(current_files)
      IsNew(f) == ~HasKey(stored_lookup, f.path)
      IsModified(f) == /\ HasKey(stored_lookup, f.path)
                       /\ Get(stored_lookup, f.path).sha # f.sha
      IsUnchanged(f) == /\ HasKey(stored_lookup, f.path)
                        /\ Get(stored_lookup, f.path).sha = f.sha
      IsDeleted(f) == ~HasKey(current_lookup, f.path)
  IN  IF stored_files = <<>>
      THEN [new |-> <<>>, modified |-> <<>>, deleted |-> <<>>, unchanged |-> <<>>]
      ELSE [new |-> SelectSeq(current_lookup, IsNew),
            modified |-> SelectSeq(current_lookup, IsModified),
            deleted |-> SelectSeq(stored_lookup, IsDeleted),
            unchanged |-> SelectSeq(current_lookup, IsUnchanged)]

compare_files(stored_files, current_files) ==
  LET stored_lookup == DictOf(stored_files)
      current_lookup == DictOf(current_files)
      IsNew(f) == ~HasKey(stored_lookup, f.path)
      IsModified(f) == /\ HasKey(stored_lookup, f.path)
                       /\ Get(stored_lookup, f.path).sha # f.sha
      IsUnchanged(f) == /\ HasKey(stored_lookup, f.path)
                        /\ Get(stored_lookup, f.path).sha = f.sha
      IsDeleted(f) == ~HasKey(current_lookup, f.path)
  IN  [new |-> SelectSeq(current_lookup, IsNew),
       modified |-> SelectSeq(current_lookup, IsModified),
       deleted |-> SelectSeq(stored_lookup, IsDeleted),
       unchanged |-> SelectSeq(current_lookup, IsUnchanged)]

\* has_changes (sync.py 244-252)
has_changes_always(changes) == TRUE

has_changes(changes) ==
  \/ Len(changes.new) > 0
  \/ Len(changes.modified) > 0
  \/ Len(changes.deleted) > 0

\* the changes dict before compare_files has run
NoChanges == [new |-> <<>>, modified |-> <<>>, deleted |-> <<>>, unchanged |-> <<>>]

(***************************************************************************)
(* State                                                                   *)
(***************************************************************************)
VARIABLES
  stored_in,   \* SpecDiff: the stored_files argument of compare_files
  current_in,  \* SpecDiff: the current_files argument of compare_files
  result,      \* SpecDiff: the dict compare_files returned
  compared,    \* SpecDiff: compare_files has returned
  upstream,    \* the branch on GitHub: path -> blob sha, NoSha when the file is absent
  store,       \* the rows of the Repository table
  index,       \* the rows of the repository's knowledge base: id (path) -> sha, NoSha when absent
  clock,       \* the reading of datetime.now()
  run,         \* per sync run: its position and the locals of sync_repository / process_changes
  syncs,       \* sync runs started so far
  pushes,      \* upstream changes so far
  name_in,     \* SpecName: the repo_name and branch a knowledge-base name is asked for
  name_out,    \* SpecName: the names computed by MindsDBClient and by the MCP tool
  kbs,         \* SpecRepo: the names of the knowledge bases MindsDB holds
  kb_rows,     \* SpecRepo: the rows of these knowledge bases
  ingest_run,  \* SpecRepo: the position and the locals of the ingest command
  delete_run,  \* SpecRepo: the position and the locals of delete_repository_action
  commands     \* SpecRepo: commands started so far

diff_vars == <<stored_in, current_in, result, compared>>
sync_vars == <<upstream, store, index, clock, run, syncs, pushes>>
name_vars == <<name_in, name_out>>
repo_vars == <<kbs, kb_rows, ingest_run, delete_run, commands>>
vars == <<stored_in, current_in, result, compared,
          upstream, store, index, clock, run, syncs, pushes,
          name_in, name_out, kbs, kb_rows, ingest_run, delete_run, commands>>

\* the sync runs of the model; SeqRuns are those Spec lets run (one at a time)
Runs == {1, 2}
SeqRuns == {1}

Trees == [Paths -> Shas \cup {NoSha}]

\* FileLoader.discover_files: the tree's .md/.mdx files with their sha and size
discover_files(tree) ==
  LET present == SelectSeq(PathOrder, LAMBDA p : tree[p] # NoSha)
  IN  [i \in 1..Len(present) |->
         [path |-> present[i], sha |-> tree[present[i]], size |-> SizeOf(tree[present[i]])]]

\* the row add_repository writes after a first ingestion of `files`
NewRepository(files) ==
  [id |-> 1, name |-> "octo/docs", branch |-> "main",
   knowledge_base_name |-> "kb_octo_docs_main",
   created_at |-> 1, last_ingested |-> NoTime, files |-> files]

\* the row of another repository, ingested earlier and not synced here
OtherRepository ==
  [id |-> 2, name |-> "octo/other", branch |-> "dev",
   knowledge_base_name |-> "kb_octo_other_dev",
   created_at |-> 1, last_ingested |-> NoTime,
   files |-> <<[path |-> "a.md", sha |-> 1, size |-> 10]>>]

NoRepository ==
  [id |-> 0, name |-> "", branch |-> "", knowledge_base_name |-> "",
   created_at |-> 0, last_ingested |-> NoTime, files |-> <<>>]

\* the locals of a sync run that has not started
IdleRun ==
  [pc |-> "idle", repository |-> NoRepository, current_files |-> <<>>,
   changes |-> NoChanges, files_to_delete |-> <<>>, del_i |-> 0,
   loaded_files |-> <<>>, calls |-> <<>>, outcome |-> "none",
   pushed |-> FALSE]

IndexPaths == {p \in Paths : index[p] # NoSha}

(***************************************************************************)
(* process_changes: its lists and its order of steps                       *)
(***************************************************************************)
\* a faulty list: the rows of modified files are left in the index
files_to_delete_only_deleted(changes) == PathSeq(changes.deleted)

\* files_to_delete: the modified paths, then the deleted paths (sync.py 303-318)
files_to_delete_of(changes) == PathSeq(changes.modified) \o PathSeq(changes.deleted)

\* files_to_ingest = changes["new"] + changes["modified"] (sync.py 331)
files_to_ingest_of(changes) == changes.new \o changes.modified

\* a faulty order: ingest first, then delete
NextStep_insert_first(step, changes) ==
  CASE step = "confirm" ->
         IF files_to_ingest_of(changes) # <<>> THEN "fetch"
         ELSE IF files_to_delete_of(changes) # <<>> THEN "kb_get" ELSE "update"
    [] step = "insert" ->
         IF files_to_delete_of(changes) # <<>> THEN "kb_get" ELSE "update"
    [] step = "delete" -> "update"
    [] OTHER -> "done"

\* a faulty order: the record is written before the knowledge base is touched
NextStep_update_first(step, changes) ==
  CASE step = "confirm" -> "update"
    [] step = "update" ->
         IF files_to_delete_of(changes) # <<>> THEN "kb_get"
         ELSE IF files_to_ingest_of(changes) # <<>> THEN "fetch" ELSE "done"
    [] step = "delete" ->
         IF files_to_ingest_of(changes) # <<>> THEN "fetch" ELSE "done"
    [] OTHER -> "done"

\* the step process_changes takes after `step` (sync.py 320-404): delete if
\* there is something to delete, then fetch and insert if there is something
\* to ingest, then the record update, which is its last statement
NextStep(step, changes) ==
  CASE step = "confirm" ->
         IF files_to_delete_of(changes) # <<>> THEN "kb_get"
         ELSE IF files_to_ingest_of(changes) # <<>> THEN "fetch" ELSE "update"
    [] step = "delete" ->
         IF files_to_ingest_of(changes) # <<>> THEN "fetch" ELSE "update"
    [] step = "insert" -> "update"
    [] OTHER -> "done"

\* an entry of a run's log: the call, the paths it was about, and whether it
\* returned (ok) or raised
CallResult(op, paths, ok) == [op |-> op, paths |-> paths, ok |-> ok]

Call(op, paths) == CallResult(op, paths, TRUE)

\* the paths a run with log `calls` has printed a warning for: "Could not
\* delete" for each DELETE that raised (sync.py 282-285); the list of failed
\* fetches is dropped unread (sync.py 345)
Warned(calls) ==
  UNION {calls[i].paths : i \in {j \in 1..Len(calls) : calls[j].op = "delete" /\ ~calls[j].ok}}

\* the run after `step` ended normally: "Sync completed successfully!" is
\* printed when process_changes returns (sync.py 150-152)
Advance(rn, step) ==
  LET next == NextStep(step, rn.changes)
  IN  [rn EXCEPT !.pc = next,
                 !.outcome = IF next = "done" THEN "success" ELSE rn.outcome]

\* an exception leaves sync_repository through its handler (sync.py 154-156)
Raise(rn) == [rn EXCEPT !.pc = "done", !.outcome = "error"]

(***************************************************************************)
(* sync_repository, one action per interaction with the outside            *)
(***************************************************************************)
\* a sync_command that waits for a lock on the repository
Select_exclusive(r) ==
  /\ run[r].pc \in {"idle", "done"}
  /\ \A other \in Runs \ {r} : run[other].pc \in {"idle", "done"}
  /\ syncs < MaxSyncs
  /\ \E repository \in {repo \in store : repo.name = "octo/docs"} :
       run' = [run EXCEPT ![r] = [IdleRun EXCEPT !.pc = "discover",
                                                 !.repository = repository]]
  /\ syncs' = syncs + 1
  /\ UNCHANGED <<upstream, store, index, clock, pushes>>
  /\ UNCHANGED <<diff_vars, name_vars, repo_vars>>

\* sync_command: list_repositories and the user's selection (sync.py 28-47);
\* the repository selected is the one whose branch and index the model holds
Select(r) ==
  /\ run[r].pc \in {"idle", "done"}
  /\ syncs < MaxSyncs
  /\ \E repository \in {repo \in store : repo.name = "octo/docs"} :
       run' = [run EXCEPT ![r] = [IdleRun EXCEPT !.pc = "discover",
                                                 !.repository = repository]]
  /\ syncs' = syncs + 1
  /\ UNCHANGED <<upstream, store, index, clock, pushes>>
  /\ UNCHANGED <<diff_vars, name_vars, repo_vars>>

\* discover_files, compare_files and the has_changes test (sync.py 119-139)
Discover(r) ==
  /\ run[r].pc = "discover"
  /\ LET current_files == discover_files(upstream)
         stored_files == run[r].repository.files
         changes == compare_files(stored_files, current_files)
     IN  run' = [run EXCEPT ![r] =
                   [@ EXCEPT !.current_files = current_files,
                             !.changes = changes,
                             !.pc = IF has_changes(changes) THEN "confirm" ELSE "done",
                             !.outcome = IF has_changes(changes) THEN @ ELSE "up_to_date"]]
  /\ UNCHANGED <<upstream, store, index, clock, syncs, pushes>>
  /\ UNCHANGED <<diff_vars, name_vars, repo_vars>>

\* discover_files raises (sync.py 123, 154-156)
DiscoverFail(r) ==
  /\ run[r].pc = "discover"
  /\ run' = [run EXCEPT ![r] = Raise(@)]
  /\ UNCHANGED <<upstream, store, index, clock, syncs, pushes>>
  /\ UNCHANGED <<diff_vars, name_vars, repo_vars>>

\* a faulty prompt: "Sync cancelled by user." is printed and the run goes on
Confirm_goes_on(r) ==
  /\ run[r].pc = "confirm"
  /\ \E answer \in BOOLEAN :
       run' = [run EXCEPT ![r] =
                 LET on == Advance([@ EXCEPT !.files_to_delete = files_to_delete_of(run[r].changes)],
                                   "confirm")
                 IN  IF answer THEN on ELSE [on EXCEPT !.outcome = "cancelled"]]
  /\ UNCHANGED <<upstream, store, index, clock, syncs, pushes>>
  /\ UNCHANGED <<diff_vars, name_vars, repo_vars>>

\* Confirm.ask, and the lists process_changes builds first (sync.py 142-150, 303-318)
Confirm(r) ==
  /\ run[r].pc = "confirm"
  /\ \E answer \in BOOLEAN :
       run' = [run EXCEPT ![r] =
                 IF answer
                 THEN Advance([@ EXCEPT !.files_to_delete = files_to_delete_of(run[r].changes)],
                              "confirm")
                 ELSE [@ EXCEPT !.pc = "done", !.outcome = "cancelled"]]
  /\ UNCHANGED <<upstream, store, index, clock, syncs, pushes>>
  /\ UNCHANGED <<diff_vars, name_vars, repo_vars>>

\* delete_files_from_knowledge_base: knowledge_bases.get (sync.py 270-274)
KbGet(r) ==
  /\ run[r].pc = "kb_get"
  /\ run' = [run EXCEPT ![r] = [@ EXCEPT !.pc = "delete", !.del_i = 1,
                                         !.calls = Append(@, Call("get", {}))]]
  /\ UNCHANGED <<upstream, store, index, clock, syncs, pushes>>
  /\ UNCHANGED <<diff_vars, name_vars, repo_vars>>

\* knowledge_bases.get raises: reported and raised again (sync.py 291-293)
KbGetFail(r) ==
  /\ run[r].pc = "kb_get"
  /\ run' = [run EXCEPT ![r] =
                Raise([@ EXCEPT !.calls = Append(@, CallResult("get", {}, FALSE))])]
  /\ UNCHANGED <<upstream, store, index, clock, syncs, pushes>>
  /\ UNCHANGED <<diff_vars, name_vars, repo_vars>>

\* a faulty loop: the first failed delete ends the run
DeleteNext_abort(r) ==
  /\ run[r].pc = "delete"
  /\ LET file_path == run[r].files_to_delete[run[r].del_i]
         last == run[r].del_i = Len(run[r].files_to_delete)
     IN  \E deleted \in BOOLEAN :
           LET logged == [run[r] EXCEPT
                            !.calls = Append(@, CallResult("delete", {file_path}, deleted)),
                            !.del_i = @ + 1]
           IN  /\ index' = IF deleted THEN [index EXCEPT ![file_path] = NoSha] ELSE index
               /\ run' = [run EXCEPT ![r] =
                            IF ~deleted THEN Raise(logged)
                            ELSE IF last THEN Advance(logged, "delete") ELSE logged]
  /\ UNCHANGED <<upstream, store, clock, syncs, pushes>>
  /\ UNCHANGED <<diff_vars, name_vars, repo_vars>>

\* one turn of the delete loop: DELETE ... WHERE id = path; a failure is a
\* warning and the loop goes on (sync.py 277-285)
DeleteNext(r) ==
  /\ run[r].pc = "delete"
  /\ LET file_path == run[r].files_to_delete[run[r].del_i]
         last == run[r].del_i = Len(run[r].files_to_delete)
     IN  \E deleted \in BOOLEAN :
           LET logged == [run[r] EXCEPT
                            !.calls = Append(@, CallResult("delete", {file_path}, deleted)),
                            !.del_i = @ + 1]
           IN  /\ index' = IF deleted THEN [index EXCEPT ![file_path] = NoSha] ELSE index
               /\ run' = [run EXCEPT ![r] =
                            IF last THEN Advance(logged, "delete") ELSE logged]
  /\ UNCHANGED <<upstream, store, clock, syncs, pushes>>
  /\ UNCHANGED <<diff_vars, name_vars, repo_vars>>

\* load_files_sync: each path is fetched from the branch as it is now, and any
\* of them may fail; the list of failures is dropped (sync.py 340-350)
Fetch(r) ==
  /\ run[r].pc = "fetch"
  /\ LET file_paths == PathSeq(files_to_ingest_of(run[r].changes))
         wanted == {file_paths[i] : i \in 1..Len(file_paths)}
     IN  \E fetched \in SUBSET {p \in wanted : upstream[p] # NoSha} :
           LET got == SelectSeq(file_paths, LAMBDA p : p \in fetched)
               loaded_files == [i \in 1..Len(got) |->
                                  [path |-> got[i], sha |-> upstream[got[i]],
                                   size |-> SizeOf(upstream[got[i]])]]
           IN  run' = [run EXCEPT ![r] =
                         [@ EXCEPT !.loaded_files = loaded_files,
                                   !.pc = "insert",
                                   !.calls = Append(@, Call("fetch", wanted))]]
  /\ UNCHANGED <<upstream, store, index, clock, syncs, pushes>>
  /\ UNCHANGED <<diff_vars, name_vars, repo_vars>>

\* kb.insert(df): one row per loaded file, keyed by its path (sync.py 353-389)
Insert(r) ==
  /\ run[r].pc = "insert"
  /\ LET rows == run[r].loaded_files
     IN  /\ index' = [p \in Paths |-> IF HasKey(rows, p) THEN Get(rows, p).sha ELSE index[p]]
         /\ run' = [run EXCEPT ![r] =
                      Advance([@ EXCEPT !.calls = Append(@, Call("insert", PathsOf(rows)))],
                              "insert")]
  /\ UNCHANGED <<upstream, store, clock, syncs, pushes>>
  /\ UNCHANGED <<diff_vars, name_vars, repo_vars>>

\* a faulty handler: a failed insert is a warning and the run goes on
InsertFail_warns(r) ==
  /\ run[r].pc = "insert"
  /\ LET rows == run[r].loaded_files
     IN  /\ \E written \in SUBSET PathsOf(rows) :
              index' = [p \in Paths |-> IF p \in written THEN Get(rows, p).sha ELSE index[p]]
         /\ run' = [run EXCEPT ![r] =
                      Advance([@ EXCEPT !.calls =
                                 Append(@, CallResult("insert", PathsOf(rows), FALSE))],
                              "insert")]
  /\ UNCHANGED <<upstream, store, clock, syncs, pushes>>
  /\ UNCHANGED <<diff_vars, name_vars, repo_vars>>

\* knowledge_bases.get or kb.insert raises, after any part of the batch was
\* written (sync.py 386-389, 154-156)
InsertFail(r) ==
  /\ run[r].pc = "insert"
  /\ LET rows == run[r].loaded_files
     IN  /\ \E written \in SUBSET PathsOf(rows) :
              index' = [p \in Paths |-> IF p \in written THEN Get(rows, p).sha ELSE index[p]]
         /\ run' = [run EXCEPT ![r] =
                      Raise([@ EXCEPT !.calls =
                               Append(@, CallResult("insert", PathsOf(rows), FALSE))])]
  /\ UNCHANGED <<upstream, store, clock, syncs, pushes>>
  /\ UNCHANGED <<diff_vars, name_vars, repo_vars>>

\* a faulty update: every row of the table is written
Update_all_rows(r) ==
  /\ run[r].pc = "update"
  /\ LET current_files == discover_files(upstream)
     IN  /\ store' = {[repo EXCEPT !.files = current_files,
                                   !.last_ingested = clock] : repo \in store}
         /\ run' = [run EXCEPT ![r] =
                      Advance([@ EXCEPT !.calls = Append(@, Call("update", PathsOf(current_files)))],
                              "update")]
  /\ clock' = clock + 1
  /\ UNCHANGED <<upstream, index, syncs, pushes>>
  /\ UNCHANGED <<diff_vars, name_vars, repo_vars>>

\* update_repository_files(repository, file_loader.discover_files()): the row
\* with the repository's id, if it is still there, gets the listing of the
\* branch as it is now and the time (sync.py 404, 407-426)
Update(r) ==
  /\ run[r].pc = "update"
  /\ LET current_files == discover_files(upstream)
         rows == {repo \in store : repo.id = run[r].repository.id}
     IN  /\ store' = (store \ rows) \cup
                       {[repo EXCEPT !.files = current_files,
                                     !.last_ingested = clock] : repo \in rows}
         /\ run' = [run EXCEPT ![r] =
                      Advance([@ EXCEPT !.calls = Append(@, Call("update", PathsOf(current_files)))],
                              "update")]
  /\ clock' = clock + 1
  /\ UNCHANGED <<upstream, index, syncs, pushes>>
  /\ UNCHANGED <<diff_vars, name_vars, repo_vars>>

\* the second discover_files, or the commit, raises (sync.py 404, 154-156)
UpdateFail(r) ==
  /\ run[r].pc = "update"
  /\ run' = [run EXCEPT ![r] =
                Raise([@ EXCEPT !.calls = Append(@, CallResult("update", {}, FALSE))])]
  /\ UNCHANGED <<upstream, store, index, clock, syncs, pushes>>
  /\ UNCHANGED <<diff_vars, name_vars, repo_vars>>

\* no sync run is under way
Quiescent == \A r \in Runs : run[r].pc \in {"idle", "done"}

\* the positions of a run between its listing of the branch and its record update
Listed == {"confirm", "kb_get", "delete", "fetch", "insert", "update"}

\* a push to the branch: files are added, changed or removed upstream; a run
\* that has listed the branch and not yet written the record is marked
UpstreamChange ==
  /\ pushes < MaxUpstreamChanges
  /\ \E tree \in Trees \ {upstream} : upstream' = tree
  /\ pushes' = pushes + 1
  /\ run' = [r \in Runs |-> IF run[r].pc \in Listed
                             THEN [run[r] EXCEPT !.pushed = TRUE] ELSE run[r]]
  /\ UNCHANGED <<store, index, clock, syncs>>
  /\ UNCHANGED <<diff_vars, name_vars, repo_vars>>

\* no knowledge-base name: the name has not been computed
NoName == <<>>
NoKb == <<>>

\* the locals of an ingest command that has not started
IdleIngest ==
  [pc |-> "idle", repo_name |-> <<>>, branch |-> <<>>, discovered_files |-> <<>>,
   files |-> <<>>, kb |-> NoKb, inserted |-> FALSE, warned |-> FALSE,
   started |-> 0, outcome |-> "none"]

\* the locals of a delete_repository_action that has not started
IdleDelete ==
  [pc |-> "idle", repository |-> NoRepository, drop |-> "none", outcome |-> "none"]

\* SpecName is not running
NamesUnused ==
  /\ name_in = [repo_name |-> <<>>, branch |-> <<>>]
  /\ name_out = [client |-> NoName, tool |-> NoName]

\* SpecDiff is not running
DiffUnused ==
  /\ stored_in = <<>>
  /\ current_in = <<>>
  /\ result = NoChanges
  /\ compared = FALSE

\* no repository is tracked and no sync runs
SyncUnused ==
  /\ upstream = [p \in Paths |-> NoSha]
  /\ store = {}
  /\ index = [p \in Paths |-> NoSha]
  /\ clock = 2
  /\ run = [r \in Runs |-> IdleRun]
  /\ syncs = 0
  /\ pushes = 0

\* no ingest and no delete command runs; MindsDB holds no knowledge base
ReposUnused ==
  /\ kbs = {}
  /\ kb_rows = {}
  /\ ingest_run = IdleIngest
  /\ delete_run = IdleDelete
  /\ commands = 0

\* a repository that has just been ingested from its branch: its row holds
\* the branch's listing and the index holds one row per listed file; the
\* branch moves away from it by pushes. The table holds the row of one more
\* repository
Init ==
  /\ \E ingested \in Trees :
       /\ upstream = ingested
       /\ store = {NewRepository(discover_files(ingested)), OtherRepository}
       /\ index = ingested
  /\ clock = 2
  /\ run = [r \in Runs |-> IdleRun]
  /\ syncs = 0
  /\ pushes = 0
  /\ DiffUnused
  /\ NamesUnused
  /\ ReposUnused

Next ==
  \/ \E r \in SeqRuns :
       \/ Select(r)
       \/ Discover(r)
       \/ DiscoverFail(r)
       \/ Confirm(r)
       \/ KbGet(r)
       \/ KbGetFail(r)
       \/ DeleteNext(r)
       \/ Fetch(r)
       \/ Insert(r)
       \/ InsertFail(r)
       \/ Update(r)
       \/ UpdateFail(r)
  \/ UpstreamChange

Spec == Init /\ [][Next]_vars

(***************************************************************************)
(* SpecConc: two sync commands of the same repository, started in two      *)
(* terminals; their steps interleave in any order                          *)
(***************************************************************************)
\* no call of run r has failed and no fetch of run r has missed a file
NoFailure(r) ==
  /\ \A i \in 1..Len(run[r].calls) : run[r].calls[i].ok
  /\ run[r].pc \in {"insert", "update", "done"} =>
       PathsOf(files_to_ingest_of(run[r].changes)) \subseteq PathsOf(run[r].loaded_files)

\* the steps of the two runs, one sync command each, and the pushes, in any
\* order; of the deletes and the fetches only those that succeed are followed
NextConc ==
  \/ \E r \in Runs :
       \/ Select(r) /\ run[r].pc = "idle"
       \/ Discover(r)
       \/ Confirm(r)
       \/ KbGet(r)
       \/ DeleteNext(r) /\ NoFailure(r)'
       \/ Fetch(r) /\ NoFailure(r)'
       \/ Insert(r)
       \/ Update(r)
  \/ UpstreamChange

SpecConc == Init /\ [][NextConc]_vars

(***************************************************************************)
(* SpecDiff: compare_files applied to every pair of bounded manifests      *)
(***************************************************************************)
InitDiff ==
  /\ stored_in \in Manifests
  /\ current_in \in Manifests
  /\ result = NoChanges
  /\ compared = FALSE
  /\ SyncUnused
  /\ NamesUnused
  /\ ReposUnused

Compare ==
  /\ ~compared
  /\ result' = compare_files(stored_in, current_in)
  /\ compared' = TRUE
  /\ UNCHANGED <<stored_in, current_in>>
  /\ UNCHANGED <<sync_vars, name_vars, repo_vars>>

NextDiff == Compare

SpecDiff == InitDiff /\ [][NextDiff]_vars

(***************************************************************************)
(* SpecDup: compare_files applied to longer manifests, in which a path may *)
(* be listed up to MaxDupLen times; the size of an entry is the size of    *)
(* its blob                                                                *)
(***************************************************************************)
SizedEntries == {e \in Entries : e.size = SizeOf(e.sha)}
DupManifests == SeqsUpTo(SizedEntries, MaxDupLen)

InitDup ==
  /\ stored_in \in DupManifests
  /\ current_in \in DupManifests
  /\ result = NoChanges
  /\ compared = FALSE
  /\ SyncUnused
  /\ NamesUnused
  /\ ReposUnused

NextDup == Compare

SpecDup == InitDup /\ [][NextDup]_vars

(***************************************************************************)
(* Knowledge-base names. A str is the sequence of its characters.          *)
(***************************************************************************)
\* the characters repository names are drawn from
NameChars == {"a", "/", "-", "_"}
\* "octo/Repo-X"
OctoRepoX == <<"o", "c", "t", "o", "/", "R", "e", "p", "o", "-", "X">>
\* "main" and "rel-1"
Main == <<"m", "a", "i", "n">>
Rel1 == <<"r", "e", "l", "-", "1">>
RepoNames == SeqsUpTo(NameChars, MaxNameLen) \cup {OctoRepoX}
Branches == {Main, Rel1}

\* a faulty str.replace: only the first occurrence is replaced
RECURSIVE replace_first(_, _, _)
replace_first(str, old, new) ==
  IF str = <<>> THEN <<>>
  ELSE IF Head(str) = old THEN new \o Tail(str)
  ELSE <<Head(str)>> \o replace_first(Tail(str), old, new)

\* str.replace(old, new) for a one-character old: every occurrence, left to right
RECURSIVE replace(_, _, _)
replace(str, old, new) ==
  IF str = <<>> THEN <<>>
  ELSE (IF Head(str) = old THEN new ELSE <<Head(str)>>) \o replace(Tail(str), old, new)

\* MindsDBClient._get_kb_name (mindsdb_client.py 88-89)
_get_kb_name(repo_name, branch) ==
  <<"k", "b", "_">> \o replace(replace(repo_name, "/", <<"_">>), "-", <<"_">>)
                   \o <<"_">> \o branch

\* the name query_repository_docs computes for itself (server.py 101)
query_repository_docs_kb_name(repo_name, branch) ==
  <<"k", "b", "_">> \o replace(replace(repo_name, "/", <<"_">>), "-", <<"_">>)
                   \o <<"_">> \o branch

InitName ==
  /\ name_in \in [repo_name : RepoNames, branch : Branches]
  /\ name_out = [client |-> NoName, tool |-> NoName]
  /\ SyncUnused
  /\ DiffUnused
  /\ ReposUnused

\* MindsDBClient computes the name (ingest, mindsdb_client.py 56)
ClientName ==
  /\ name_out.client = NoName
  /\ name_out' = [name_out EXCEPT !.client = _get_kb_name(name_in.repo_name, name_in.branch)]
  /\ UNCHANGED name_in
  /\ UNCHANGED <<diff_vars, sync_vars, repo_vars>>

\* the MCP query tool computes the name (server.py 99-104)
ToolName ==
  /\ name_out.tool = NoName
  /\ name_out' = [name_out EXCEPT
                    !.tool = query_repository_docs_kb_name(name_in.repo_name, name_in.branch)]
  /\ UNCHANGED name_in
  /\ UNCHANGED <<diff_vars, sync_vars, repo_vars>>

NextName == ClientName \/ ToolName

SpecName == InitName /\ [][NextName]_vars

(***************************************************************************)
(* SpecRepo: the ingest command and delete_repository_action, one command  *)
(* at a time, over the Repository table and the knowledge bases of MindsDB *)
(***************************************************************************)
\* "a/b-c", "a/b_c" and "a/d": the repositories a user ingests
NameDash == <<"a", "/", "b", "-", "c">>
NameUnder == <<"a", "/", "b", "_", "c">>
NameOther == <<"a", "/", "d">>
IngestNames == {NameDash, NameUnder, NameOther}
IngestBranches == {Main, Rel1}
\* the listings of a branch an ingest may see
IngestTrees == [Paths -> {NoSha, 1}]

\* the rows kb.insert(df) writes for `files` (ingest.py 89-115)
KbRows(kb, repo_name, branch, files) ==
  {[kb |-> kb, id |-> files[i].path, repository |-> repo_name, branch |-> branch,
    sha |-> files[i].sha] : i \in 1..Len(files)}

\* the primary key SQLite gives the next row
NextId(table) ==
  IF table = {} THEN 1
  ELSE 1 + (CHOOSE n \in {row.id : row \in table} : \A row \in table : row.id <= n)

\* a faulty constraint: unique per name and branch
unique_name_and_branch(table, name, branch) ==
  \A row \in table : row.name # name \/ row.branch # branch

\* the unique index on Repository.name lets the commit pass (models.py 19, 74)
unique_name(table, name, branch) == \A row \in table : row.name # name

\* a faulty order: the record is written before the rows are inserted
IngestStep_add_first(step) ==
  CASE step = "create_kb" -> "add"
    [] step = "add" -> "insert"
    [] OTHER -> "done"

\* the step MindsDBClient.ingest takes after `step` (mindsdb_client.py 22-38)
IngestStep(step) ==
  CASE step = "create_kb" -> "insert"
    [] step = "insert" -> "add"
    [] OTHER -> "done"

\* the command after `step` ended normally: the success message is printed
\* when mindsdb_client.ingest returns (ingest.py 122-129)
IngestAdvance(rn, step) ==
  LET next == IngestStep(step)
  IN  [rn EXCEPT !.pc = next,
                 !.outcome = IF next = "done" THEN "success" ELSE rn.outcome]

\* an exception, typer.Exit included, ends the command in its handler
\* (ingest.py 140-142)
IngestRaise(rn) == [rn EXCEPT !.pc = "done", !.outcome = "error"]

NoCommand == ingest_run.pc \in {"idle", "done"} /\ delete_run.pc \in {"idle", "done"}

\* docs-kb ingest repo_name --branch branch (ingest.py 18-48)
StartIngest ==
  /\ NoCommand
  /\ commands < MaxCommands
  /\ \E repo_name \in IngestNames, branch \in IngestBranches :
       ingest_run' = [IdleIngest EXCEPT !.pc = "discover", !.repo_name = repo_name,
                                        !.branch = branch, !.started = clock]
  /\ delete_run' = IdleDelete
  /\ commands' = commands + 1
  /\ UNCHANGED <<kbs, kb_rows>>
  /\ UNCHANGED <<diff_vars, sync_vars, name_vars>>

\* discover_files; an empty listing ends the command (ingest.py 54-61)
IngestDiscover ==
  /\ ingest_run.pc = "discover"
  /\ \E tree \in IngestTrees :
       LET discovered_files == discover_files(tree)
       IN  ingest_run' = IF discovered_files = <<>> THEN IngestRaise(ingest_run)
                         ELSE [ingest_run EXCEPT !.discovered_files = discovered_files,
                                                 !.pc = "confirm"]
  /\ UNCHANGED <<kbs, kb_rows, delete_run, commands>>
  /\ UNCHANGED <<diff_vars, sync_vars, name_vars>>

\* Confirm.ask (ingest.py 72-74)
IngestConfirm ==
  /\ ingest_run.pc = "confirm"
  /\ \E answer \in BOOLEAN :
       ingest_run' = IF answer THEN [ingest_run EXCEPT !.pc = "load"]
                     ELSE [ingest_run EXCEPT !.pc = "done", !.outcome = "cancelled"]
  /\ UNCHANGED <<kbs, kb_rows, delete_run, commands>>
  /\ UNCHANGED <<diff_vars, sync_vars, name_vars>>

\* FileLoader.load_files: a second discover_files, of the branch as it is
\* now, and load_files_sync of its paths, any of which may fail
\* (ingest.py 83, file_loader.py 21-36)
IngestLoad ==
  /\ ingest_run.pc = "load"
  /\ \E tree \in IngestTrees :
       LET discovered_files == discover_files(tree)
       IN  IF discovered_files = <<>>
           THEN ingest_run' = IngestRaise(ingest_run)
           ELSE \E loaded \in SUBSET PathsOf(discovered_files) :
                  ingest_run' =
                    [ingest_run EXCEPT
                       !.files = SelectSeq(discovered_files, LAMBDA f : f.path \in loaded),
                       !.pc = "create_kb"]
  /\ UNCHANGED <<kbs, kb_rows, delete_run, commands>>
  /\ UNCHANGED <<diff_vars, sync_vars, name_vars>>

\* _create_or_get_kb: the knowledge base of the computed name, created when
\* MindsDB does not hold it (mindsdb_client.py 22, 55-86)
IngestCreateKb ==
  /\ ingest_run.pc = "create_kb"
  /\ LET knowledge_base_name == _get_kb_name(ingest_run.repo_name, ingest_run.branch)
     IN  /\ kbs' = kbs \cup {knowledge_base_name}
         /\ ingest_run' = IngestAdvance([ingest_run EXCEPT !.kb = knowledge_base_name],
                                        "create_kb")
  /\ UNCHANGED <<kb_rows, delete_run, commands>>
  /\ UNCHANGED <<diff_vars, sync_vars, name_vars>>

\* _create_or_get_kb raises (mindsdb_client.py 83-86)
IngestCreateKbFail ==
  /\ ingest_run.pc = "create_kb"
  /\ ingest_run' = IngestRaise(ingest_run)
  /\ UNCHANGED <<kbs, kb_rows, delete_run, commands>>
  /\ UNCHANGED <<diff_vars, sync_vars, name_vars>>

\* kb.insert(data): one row per loaded file, keyed by its path
\* (mindsdb_client.py 27)
IngestInsert ==
  /\ ingest_run.pc = "insert"
  /\ LET rows == KbRows(ingest_run.kb, ingest_run.repo_name, ingest_run.branch,
                        ingest_run.files)
     IN  kb_rows' = {x \in kb_rows : ~(x.kb = ingest_run.kb
                                         /\ x.id \in PathsOf(ingest_run.files))} \cup rows
  /\ ingest_run' = IngestAdvance([ingest_run EXCEPT !.inserted = TRUE], "insert")
  /\ UNCHANGED <<kbs, delete_run, commands>>
  /\ UNCHANGED <<diff_vars, sync_vars, name_vars>>

\* kb.insert raises, after any part of the batch was written
IngestInsertFail ==
  /\ ingest_run.pc = "insert"
  /\ \E written \in SUBSET PathsOf(ingest_run.files) :
       LET rows == {x \in KbRows(ingest_run.kb, ingest_run.repo_name, ingest_run.branch,
                                 ingest_run.files) : x.id \in written}
       IN  kb_rows' = {x \in kb_rows : ~(x.kb = ingest_run.kb /\ x.id \in written)} \cup rows
  /\ ingest_run' = IngestRaise(ingest_run)
  /\ UNCHANGED <<kbs, delete_run, commands>>
  /\ UNCHANGED <<diff_vars, sync_vars, name_vars>>

\* add_repository(name, branch, files=discovered_files, kb.name); when the
\* commit raises the exception is a warning and ingest returns None
\* (mindsdb_client.py 34-42, models.py 57-76)
IngestAdd ==
  /\ ingest_run.pc = "add"
  /\ LET repository == [id |-> NextId(store), name |-> ingest_run.repo_name,
                        branch |-> ingest_run.branch,
                        knowledge_base_name |-> ingest_run.kb,
                        created_at |-> clock, last_ingested |-> NoTime,
                        files |-> ingest_run.discovered_files]
     IN  IF unique_name(store, ingest_run.repo_name, ingest_run.branch)
         THEN /\ store' = store \cup {repository}
              /\ ingest_run' = IngestAdvance(ingest_run, "add")
         ELSE /\ store' = store
              /\ ingest_run' = IngestAdvance([ingest_run EXCEPT !.warned = TRUE], "add")
  /\ clock' = clock + 1
  /\ UNCHANGED <<kbs, kb_rows, delete_run, commands>>
  /\ UNCHANGED <<upstream, index, run, syncs, pushes>>
  /\ UNCHANGED <<diff_vars, name_vars>>

\* manage: the user picks a repository and "delete" (manage.py 144-152)
StartDelete ==
  /\ NoCommand
  /\ commands < MaxCommands
  /\ \E repository \in store :
       delete_run' = [IdleDelete EXCEPT !.pc = "confirm", !.repository = repository]
  /\ ingest_run' = IdleIngest
  /\ commands' = commands + 1
  /\ UNCHANGED <<kbs, kb_rows>>
  /\ UNCHANGED <<diff_vars, sync_vars, name_vars>>

\* the two confirmations and the typed name (manage.py 154-175)
DeleteConfirm ==
  /\ delete_run.pc = "confirm"
  /\ \E answer \in BOOLEAN :
       delete_run' = IF answer THEN [delete_run EXCEPT !.pc = "drop"]
                     ELSE [delete_run EXCEPT !.pc = "done", !.outcome = "cancelled"]
  /\ UNCHANGED <<kbs, kb_rows, ingest_run, commands>>
  /\ UNCHANGED <<diff_vars, sync_vars, name_vars>>

\* _delete_knowledge_base: knowledge_bases.drop; when it raises the
\* exception is printed and the method returns (manage.py 183,
\* mindsdb_client.py 91-96)
DropKb ==
  /\ delete_run.pc = "drop"
  /\ \E dropped \in BOOLEAN :
       /\ kbs' = IF dropped THEN kbs \ {delete_run.repository.knowledge_base_name} ELSE kbs
       /\ kb_rows' = IF dropped
                     THEN {x \in kb_rows : x.kb # delete_run.repository.knowledge_base_name}
                     ELSE kb_rows
       /\ delete_run' = [delete_run EXCEPT !.pc = "delete_record",
                                           !.drop = IF dropped THEN "ok" ELSE "failed"]
  /\ UNCHANGED <<ingest_run, commands>>
  /\ UNCHANGED <<diff_vars, sync_vars, name_vars>>

\* delete_repository(name) and the message that follows it (manage.py 187-197,
\* models.py 97-106)
DeleteRecord ==
  /\ delete_run.pc = "delete_record"
  /\ LET rows == {row \in store : row.name = delete_run.repository.name}
         success == rows # {}
     IN  /\ store' = store \ rows
         /\ delete_run' = [delete_run EXCEPT
                             !.pc = "done",
                             !.outcome = IF success THEN "success" ELSE "not_deleted"]
  /\ UNCHANGED <<kbs, kb_rows, ingest_run, commands>>
  /\ UNCHANGED <<upstream, index, clock, run, syncs, pushes>>
  /\ UNCHANGED <<diff_vars, name_vars>>

\* delete_repository raises: reported and raised again (manage.py 199-201)
DeleteRecordFail ==
  /\ delete_run.pc = "delete_record"
  /\ delete_run' = [delete_run EXCEPT !.pc = "done", !.outcome = "error"]
  /\ UNCHANGED <<kbs, kb_rows, ingest_run, commands>>
  /\ UNCHANGED <<diff_vars, sync_vars, name_vars>>

\* a fresh installation: no row, no knowledge base
InitRepo ==
  /\ ReposUnused
  /\ SyncUnused
  /\ DiffUnused
  /\ NamesUnused

NextRepo ==
  \/ StartIngest
  \/ IngestDiscover
  \/ IngestConfirm
  \/ IngestLoad
  \/ IngestCreateKb
  \/ IngestCreateKbFail
  \/ IngestInsert
  \/ IngestInsertFail
  \/ IngestAdd
  \/ StartDelete
  \/ DeleteConfirm
  \/ DropKb
  \/ DeleteRecord
  \/ DeleteRecordFail

SpecRepo == InitRepo /\ [][NextRepo]_vars

(***************************************************************************)
(* SpecRetry: a sync run and the sync run that follows it, each kept in    *)
(* its own record; the branch moves before the first of them starts        *)
(***************************************************************************)
\* a repository as the ingest command leaves it: the row holds the listing
\* the command discovered, the index one row per file that was loaded
\* (ingest.py 79-124)
InitRetry ==
  /\ \E ingested \in IngestTrees \ {[p \in Paths |-> NoSha]} :
     \E loaded \in SUBSET {p \in Paths : ingested[p] # NoSha} :
       /\ upstream = ingested
       /\ store = {NewRepository(discover_files(ingested)), OtherRepository}
       /\ index = [p \in Paths |-> IF p \in loaded THEN ingested[p] ELSE NoSha]
  /\ clock = 2
  /\ run = [r \in Runs |-> IdleRun]
  /\ syncs = 0
  /\ pushes = 0
  /\ DiffUnused
  /\ NamesUnused
  /\ ReposUnused

\* the first sync command, then the second, each with its failures; the
\* branch is pushed to while no sync command runs
NextRetry ==
  \/ Select(1) /\ run[1].pc = "idle"
  \/ Select(2) /\ run[1].pc = "done" /\ run[2].pc = "idle"
  \/ \E r \in Runs :
       \/ Discover(r)
       \/ DiscoverFail(r)
       \/ Confirm(r)
       \/ KbGet(r)
       \/ KbGetFail(r)
       \/ DeleteNext(r)
       \/ Fetch(r)
       \/ Insert(r)
       \/ InsertFail(r)
       \/ Update(r)
       \/ UpdateFail(r)
  \/ UpstreamChange /\ Quiescent

SpecRetry == InitRetry /\ [][NextRetry]_vars

(***************************************************************************)
(* SpecGone: sync runs of a repository whose branch has moved on since it  *)
(* was ingested, while delete_repository_action runs in another terminal   *)
(***************************************************************************)
\* the knowledge base of run r's repository is held by MindsDB
KbThere(r) == run[r].repository.knowledge_base_name \in kbs

\* the latest call of run r returned iff the knowledge base is there: a query
\* on a dropped knowledge base raises, and of the calls on one that is there
\* only those that succeed are followed
AsKbAllows(r) == run[r].calls[Len(run[r].calls)].ok <=> KbThere(r)

\* _delete_knowledge_base on a repository a sync run may be working on: the
\* rows of the index go with the knowledge base (manage.py 183,
\* mindsdb_client.py 91-96)
DropSyncedKb ==
  /\ delete_run.pc = "drop"
  /\ \E dropped \in BOOLEAN :
       /\ kbs' = IF dropped THEN kbs \ {delete_run.repository.knowledge_base_name} ELSE kbs
       /\ index' = IF dropped /\ delete_run.repository.name = "octo/docs"
                   THEN [p \in Paths |-> NoSha] ELSE index
       /\ delete_run' = [delete_run EXCEPT !.pc = "delete_record",
                                           !.drop = IF dropped THEN "ok" ELSE "failed"]
  /\ UNCHANGED <<kb_rows, ingest_run, commands>>
  /\ UNCHANGED <<upstream, store, clock, run, syncs, pushes>>
  /\ UNCHANGED <<diff_vars, name_vars>>

InitGone ==
  /\ \E ingested \in IngestTrees :
     \E tree \in Trees \ {ingested} :
       /\ upstream = tree
       /\ store = {NewRepository(discover_files(ingested)), OtherRepository}
       /\ index = ingested
  /\ clock = 2
  /\ run = [r \in Runs |-> IdleRun]
  /\ syncs = 0
  /\ pushes = 0
  /\ kbs = {repo.knowledge_base_name : repo \in {NewRepository(<<>>), OtherRepository}}
  /\ kb_rows = {}
  /\ ingest_run = IdleIngest
  /\ delete_run = IdleDelete
  /\ commands = 0
  /\ DiffUnused
  /\ NamesUnused

NextGone ==
  \/ \E r \in SeqRuns :
       \/ Select(r)
       \/ Discover(r)
       \/ Confirm(r)
       \/ KbGet(r) /\ KbThere(r)
       \/ KbGetFail(r) /\ ~KbThere(r)
       \/ DeleteNext(r) /\ AsKbAllows(r)'
       \/ Fetch(r) /\ NoFailure(r)'
       \/ Insert(r) /\ KbThere(r)
       \/ InsertFail(r) /\ ~KbThere(r) /\ UNCHANGED index
       \/ Update(r)
       \/ UpdateFail(r)
  \/ StartDelete
  \/ DeleteConfirm
  \/ DropSyncedKb
  \/ DeleteRecord
  \/ DeleteRecordFail

SpecGone == InitGone /\ [][NextGone]_vars

(***************************************************************************)
(* Properties of compare_files, checked under SpecDiff                     *)
(***************************************************************************)
Buckets == {"new", "modified", "deleted", "unchanged"}
BucketsWith(p) == {b \in Buckets : p \in PathsOf(result[b])}
\* the entries of `files` whose path is p
EntriesAt(files, p) == {i \in 1..Len(files) : files[i].path = p}
\* p is listed exactly once in `files`
Once(files, p) == Cardinality(EntriesAt(files, p)) = 1
EntryAt(files, p) == files[CHOOSE i \in 1..Len(files) : files[i].path = p]

\* C2: for stored and current manifests with unique paths, every path of the
\* union of the two is in exactly one bucket, once, and the buckets hold no
\* other path.
C2_Partition ==
  (compared /\ UniquePaths(stored_in) /\ UniquePaths(current_in)) =>
    /\ \A p \in PathsOf(stored_in) \cup PathsOf(current_in) :
         Cardinality(BucketsWith(p)) = 1
    /\ \A b \in Buckets :
         /\ UniquePaths(result[b])
         /\ PathsOf(result[b]) \subseteq PathsOf(stored_in) \cup PathsOf(current_in)

\* C2 witness: a diff of two unique-path manifests that fills three buckets
C2_Witness ==
  /\ compared
  /\ UniquePaths(stored_in) /\ UniquePaths(current_in)
  /\ Len(stored_in) = 2 /\ Len(current_in) = 1
  /\ result.deleted # <<>>
  /\ result.modified # <<>>

\* C3: a path listed (once) in both manifests is modified exactly when the
\* two sha values differ and unchanged otherwise, whatever the sizes are, and
\* it is neither new nor deleted.
C3_ModifiedIffShaDiffers ==
  compared =>
    \A p \in Paths :
      (Once(stored_in, p) /\ Once(current_in, p)) =>
        LET differs == EntryAt(stored_in, p).sha # EntryAt(current_in, p).sha
        IN  /\ (p \in PathsOf(result.modified)) <=> differs
            /\ (p \in PathsOf(result.unchanged)) <=> ~differs
            /\ p \notin PathsOf(result.new)
            /\ p \notin PathsOf(result.deleted)

\* C3 witness: a path with the same sha and another size is unchanged, next to
\* a path whose sha changed
C3_Witness ==
  /\ compared
  /\ \E p, q \in Paths :
       /\ Once(stored_in, p) /\ Once(current_in, p)
       /\ Once(stored_in, q) /\ Once(current_in, q)
       /\ EntryAt(stored_in, p).sha = EntryAt(current_in, p).sha
       /\ EntryAt(stored_in, p).size # EntryAt(current_in, p).size
       /\ p \in PathsOf(result.unchanged)
       /\ EntryAt(stored_in, q).sha # EntryAt(current_in, q).sha
       /\ q \in PathsOf(result.modified)

\* C4: compare_files(M, M), for M with unique paths, has empty new, modified
\* and deleted buckets and an unchanged bucket equal to M.
C4_SameManifest ==
  (compared /\ stored_in = current_in /\ UniquePaths(stored_in)) =>
    result = [new |-> <<>>, modified |-> <<>>, deleted |-> <<>>,
              unchanged |-> stored_in]

\* C4 witness: a manifest of two files compared with itself
C4_Witness ==
  /\ compared
  /\ stored_in = current_in
  /\ UniquePaths(stored_in)
  /\ Len(stored_in) = 2
  /\ result.unchanged = stored_in

\* C5: with an empty stored manifest every current entry is new and the other
\* buckets are empty; with an empty current manifest every stored entry is
\* deleted and the other buckets are empty (a manifest lists a path once).
C5_EmptyManifest ==
  compared =>
    /\ (stored_in = <<>> /\ UniquePaths(current_in)) =>
         result = [new |-> current_in, modified |-> <<>>, deleted |-> <<>>,
                   unchanged |-> <<>>]
    /\ (current_in = <<>> /\ UniquePaths(stored_in)) =>
         result = [new |-> <<>>, modified |-> <<>>, deleted |-> stored_in,
                   unchanged |-> <<>>]

\* C5 witness: two files against an empty stored manifest
C5_Witness ==
  /\ compared
  /\ stored_in = <<>>
  /\ Len(current_in) = 2
  /\ UniquePaths(current_in)
  /\ result.new = current_in

(***************************************************************************)
(* Properties of compare_files, checked under SpecDup                      *)
(***************************************************************************)
\* the place of the first and of the last entry of `files` whose path is p
FirstAt(files, p) == CHOOSE i \in EntriesAt(files, p) : \A j \in EntriesAt(files, p) : i <= j
LastAt(files, p) == CHOOSE i \in EntriesAt(files, p) : \A j \in EntriesAt(files, p) : j <= i
\* the paths of `bucket` are paths of `files` and follow each other as their
\* first entries do in `files`
InOrderOf(bucket, files) ==
  /\ PathsOf(bucket) \subseteq PathsOf(files)
  /\ \A i, j \in 1..Len(bucket) :
       i < j => FirstAt(files, bucket[i].path) < FirstAt(files, bucket[j].path)

\* C26: the entries of new, modified and unchanged follow each other as their
\* paths do in the current manifest, and the entries of deleted as their paths
\* do in the stored manifest.
C26_InputOrder ==
  compared =>
    /\ \A b \in {"new", "modified", "unchanged"} : InOrderOf(result[b], current_in)
    /\ InOrderOf(result.deleted, stored_in)

\* C26 witness: the current manifest lists b.md and then a.md, neither is
\* stored, and new is [b.md, a.md]
C26_Witness ==
  /\ compared
  /\ UniquePaths(current_in)
  /\ PathSeq(current_in) = <<"b.md", "a.md">>
  /\ PathSeq(result.new) = <<"b.md", "a.md">>

\* C30: whatever paths are listed twice or more, every path of the two
\* manifests is in exactly one bucket and once in it; the bucket's entry for a
\* path is the path's last entry in the current manifest (in the stored
\* manifest for deleted), modified or unchanged is decided by the sha of the
\* last stored entry and of the last current entry, and the entry stands in
\* the bucket where the path's first entry stands among the others.
C30_DuplicatePaths ==
  compared =>
    /\ \A p \in PathsOf(stored_in) \cup PathsOf(current_in) :
         Cardinality(BucketsWith(p)) = 1
    /\ \A b \in Buckets :
         /\ UniquePaths(result[b])
         /\ PathsOf(result[b]) \subseteq PathsOf(stored_in) \cup PathsOf(current_in)
    /\ \A b \in {"new", "modified", "unchanged"} :
         /\ InOrderOf(result[b], current_in)
         /\ \A i \in 1..Len(result[b]) :
              result[b][i] = current_in[LastAt(current_in, result[b][i].path)]
    /\ InOrderOf(result.deleted, stored_in)
    /\ \A i \in 1..Len(result.deleted) :
         result.deleted[i] = stored_in[LastAt(stored_in, result.deleted[i].path)]
    /\ \A p \in PathsOf(stored_in) \cap PathsOf(current_in) :
         LET differs == stored_in[LastAt(stored_in, p)].sha
                          # current_in[LastAt(current_in, p)].sha
         IN  /\ (p \in PathsOf(result.modified)) <=> differs
             /\ (p \in PathsOf(result.unchanged)) <=> ~differs

\* C30 witness: the current manifest lists a path, another path, and the
\* first path again with another sha; the stored manifest lists the first path
\* with the sha of its last current entry and then with the sha of its first;
\* both paths are modified, the first path by its last entry and in front
C30_Witness ==
  /\ compared
  /\ Len(current_in) = 3
  /\ current_in[1].path = current_in[3].path
  /\ current_in[1].path # current_in[2].path
  /\ current_in[1].sha # current_in[3].sha
  /\ Len(stored_in) = 3
  /\ stored_in[1].path = current_in[1].path
  /\ stored_in[1].sha = current_in[3].sha
  /\ stored_in[2].path = current_in[1].path
  /\ stored_in[2].sha = current_in[1].sha
  /\ stored_in[3].path = current_in[2].path
  /\ result.modified = <<current_in[3], current_in[2]>>

(***************************************************************************)
(* Properties of the sync pipeline, checked under Spec                     *)
(***************************************************************************)
\* run r went through process_changes and "Sync completed successfully!" was printed
Succeeded(r) == run[r].pc = "done" /\ run[r].outcome = "success"
\* the places of the calls `op` in run r's log
CallsAt(r, op) == {i \in 1..Len(run[r].calls) : run[r].calls[i].op = op}
\* the paths run r asked the fetcher for, and those it did not get
Wanted(r) == PathsOf(files_to_ingest_of(run[r].changes))
FetchFailed(r) == Wanted(r) \ PathsOf(run[r].loaded_files)
\* the row of the repository run r syncs
RowsOf(r) == {repo \in store : repo.id = run[r].repository.id}
\* `files` lists path p with checksum sha
Lists(files, p, sha) == \E i \in 1..Len(files) : files[i].path = p /\ files[i].sha = sha

\* C1: whenever no sync run is under way, the paths of the stored manifest
\* are the paths of the rows of the knowledge-base index.
C1_ManifestEqualsIndex ==
  Quiescent =>
    \A repo \in store : repo.name = "octo/docs" => PathsOf(repo.files) = IndexPaths

\* C6: in a run's calls no delete follows an insert, and when the insert is
\* issued a delete has been issued for every modified and every deleted path.
C6_DeletesBeforeInsert ==
  \A r \in Runs :
    \A j \in CallsAt(r, "insert") :
      /\ \A i \in CallsAt(r, "delete") : i < j
      /\ \A p \in PathsOf(run[r].changes.modified) \cup PathsOf(run[r].changes.deleted) :
           \E i \in CallsAt(r, "delete") : i < j /\ run[r].calls[i].paths = {p}

\* C6 witness: a modified path was deleted and then inserted again while a
\* removed path was deleted
C6_Witness ==
  \E r \in Runs :
    /\ Succeeded(r)
    /\ run[r].changes.modified # <<>>
    /\ run[r].changes.deleted # <<>>
    /\ \E j \in CallsAt(r, "insert") :
         PathsOf(run[r].changes.modified) \subseteq run[r].calls[j].paths

\* C7: after a run that ended in success, a path whose fetch failed was not
\* inserted by the run and is not in the stored manifest with its current sha.
C7_FailedFetchNotSynced ==
  \A r \in Runs :
    Succeeded(r) =>
      \A p \in FetchFailed(r) :
        /\ \A j \in CallsAt(r, "insert") : p \notin run[r].calls[j].paths
        /\ \A repo \in RowsOf(r) :
             ~Lists(repo.files, p, EntryAt(run[r].current_files, p).sha)

\* C8: the record update is the last call of a run: it follows a delete of
\* every path to delete and, when there is something to ingest, the fetch and
\* the insert; until it is issued the record is as the run found it.
C8_UpdateIsLast ==
  \A r \in Runs :
    /\ \A u \in CallsAt(r, "update") :
         /\ u = Len(run[r].calls)
         /\ run[r].pc = "done"
         /\ \A k \in 1..Len(run[r].files_to_delete) :
              \E i \in CallsAt(r, "delete") :
                i < u /\ run[r].calls[i].paths = {run[r].files_to_delete[k]}
         /\ files_to_ingest_of(run[r].changes) # <<>> =>
              \E f \in CallsAt(r, "fetch"), i \in CallsAt(r, "insert") : f < i /\ i < u
    /\ (run[r].pc # "idle" /\ CallsAt(r, "update") = {}) => run[r].repository \in store

\* C8 witness: a run that deleted, fetched, inserted and then wrote the record
C8_Witness ==
  \E r \in Runs :
    /\ Succeeded(r)
    /\ CallsAt(r, "delete") # {}
    /\ CallsAt(r, "insert") # {}
    /\ run[r].calls[Len(run[r].calls)].op = "update"
    /\ run[r].repository \notin store

\* C9: after a run that ended in success and in which no fetch failed, every
\* path/sha entry of the stored manifest was inserted by the run or is in its
\* unchanged bucket.
C9_ManifestReflectsApplied ==
  \A r \in Runs :
    (Succeeded(r) /\ FetchFailed(r) = {}) =>
      \A repo \in RowsOf(r) :
        \A i \in 1..Len(repo.files) :
          \/ Lists(run[r].loaded_files, repo.files[i].path, repo.files[i].sha)
          \/ Lists(run[r].changes.unchanged, repo.files[i].path, repo.files[i].sha)

\* the ChangeSet of run r has been computed
Diffed(r) == run[r].pc \notin {"idle", "discover"} /\ run[r].outcome # "error"

\* C10: a run whose ChangeSet has empty new, modified and deleted buckets ends
\* at once as "already up to date", has issued no call, and the record is as
\* the run found it; no other run ends as "already up to date".
C10_NoOpFastPath ==
  \A r \in Runs :
    /\ ( /\ Diffed(r)
         /\ run[r].changes.new = <<>>
         /\ run[r].changes.modified = <<>>
         /\ run[r].changes.deleted = <<>> ) =>
           /\ run[r].pc = "done"
           /\ run[r].outcome = "up_to_date"
           /\ run[r].calls = <<>>
           /\ run[r].repository \in store
    /\ run[r].outcome = "up_to_date" =>
         ~(\/ run[r].changes.new # <<>>
           \/ run[r].changes.modified # <<>>
           \/ run[r].changes.deleted # <<>>)

\* C10 witness: a run over a non-empty manifest that found nothing to do,
\* after an earlier run had written the record
C10_Witness ==
  \E r \in Runs :
    /\ run[r].pc = "done"
    /\ run[r].outcome = "up_to_date"
    /\ run[r].changes.unchanged # <<>>
    /\ run[r].repository.last_ingested # NoTime
    /\ run[r].repository \in store

\* the paths of run r's calls `op`
CalledWith(r, op) == UNION {run[r].calls[i].paths : i \in CallsAt(r, op)}
\* every call of run r returned
AllCallsOk(r) == \A i \in 1..Len(run[r].calls) : run[r].calls[i].ok
\* a run that was confirmed, in which every delete, fetch and insert succeeded
\* and during which the branch did not change
CleanRun(r) ==
  /\ Succeeded(r)
  /\ AllCallsOk(r)
  /\ FetchFailed(r) = {}
  /\ ~run[r].pushed

\* C11: after a confirmed run in which every delete, fetch and insert
\* succeeded and during which the branch did not change: one delete was issued
\* for each modified and each deleted path and for no other, the new and
\* modified paths and no other were fetched and inserted, no delete, fetch
\* or insert names an unchanged path, the index holds the inserted paths with
\* their current sha and no deleted path, and the stored manifest is the
\* current manifest.
C11_CleanRunApplied ==
  \A r \in Runs :
    CleanRun(r) =>
      LET ch == run[r].changes
          gone == PathsOf(ch.modified) \cup PathsOf(ch.deleted)
          fresh == PathsOf(ch.new) \cup PathsOf(ch.modified)
      IN  /\ CalledWith(r, "delete") = gone
          /\ Cardinality(CallsAt(r, "delete")) = Cardinality(gone)
          /\ CalledWith(r, "fetch") = fresh
          /\ CalledWith(r, "insert") = fresh
          /\ Cardinality(CallsAt(r, "fetch")) = (IF fresh = {} THEN 0 ELSE 1)
          /\ Cardinality(CallsAt(r, "insert")) = (IF fresh = {} THEN 0 ELSE 1)
          /\ \A op \in {"delete", "fetch", "insert"} :
               CalledWith(r, op) \cap PathsOf(ch.unchanged) = {}
          /\ \A p \in fresh : index[p] = EntryAt(run[r].current_files, p).sha
          /\ \A p \in PathsOf(ch.deleted) : index[p] = NoSha
          /\ RowsOf(r) # {}
          /\ \A repo \in RowsOf(r) : repo.files = run[r].current_files

\* C11 witness: a clean run that removed one path and re-ingested a modified one
C11_Witness ==
  \E r \in Runs :
    /\ CleanRun(r)
    /\ run[r].changes.deleted # <<>>
    /\ run[r].changes.modified # <<>>
    /\ \A repo \in RowsOf(r) : repo.files = run[r].current_files

\* C12: a delete that failed is followed by what would have followed it had
\* it succeeded: while it is the run's latest call the run stands at the next
\* delete, at the fetch or at the record update and has reported no error, and
\* the call after it is the delete of the next path of the list, or after the
\* last path the fetch when there is something to ingest and the record update
\* otherwise.
C12_FailedDeleteGoesOn ==
  \A r \in Runs :
    \A i \in CallsAt(r, "delete") :
      ~run[r].calls[i].ok =>
        LET k == Cardinality({j \in CallsAt(r, "delete") : j <= i})
            more == k < Len(run[r].files_to_delete)
            ingest == files_to_ingest_of(run[r].changes) # <<>>
            after == IF more THEN "delete" ELSE IF ingest THEN "fetch" ELSE "update"
        IN  /\ run[r].calls[i].paths = {run[r].files_to_delete[k]}
            /\ i = Len(run[r].calls) => (run[r].pc = after /\ run[r].outcome = "none")
            /\ i < Len(run[r].calls) =>
                 /\ run[r].calls[i + 1].op = after
                 /\ more => run[r].calls[i + 1].paths = {run[r].files_to_delete[k + 1]}

\* C12 witness: a run that ended in success although its first delete failed,
\* after a second delete, a fetch, an insert and the record update
C12_Witness ==
  \E r \in Runs :
    /\ Succeeded(r)
    /\ \E i, j \in CallsAt(r, "delete") : i < j /\ ~run[r].calls[i].ok
    /\ CallsAt(r, "fetch") # {}
    /\ CallsAt(r, "insert") # {}
    /\ \E u \in CallsAt(r, "update") : run[r].calls[u].ok

\* C13: when the knowledge-base lookup of the delete step or the batch insert
\* raises, that call is the run's last, the run ends reporting an error, and
\* the record is as the run found it (files and last_ingested unchanged).
C13_GatewayFailureStops ==
  \A r \in Runs :
    \A i \in CallsAt(r, "get") \cup CallsAt(r, "insert") :
      ~run[r].calls[i].ok =>
        /\ i = Len(run[r].calls)
        /\ run[r].pc = "done"
        /\ run[r].outcome = "error"
        /\ CallsAt(r, "update") = {}
        /\ run[r].repository \in store

\* C13 witness: the insert raised after the deletes had been carried out
C13_Witness ==
  \E r \in Runs :
    /\ CallsAt(r, "delete") # {}
    /\ \E i \in CallsAt(r, "insert") : ~run[r].calls[i].ok
    /\ run[r].outcome = "error"
    /\ run[r].repository \in store

\* C18: the synced repository's row keeps the id, name, branch,
\* knowledge_base_name and created_at it was created with, and the row of the
\* other repository is as it was created.
C18_UpdateFrame ==
  /\ OtherRepository \in store
  /\ Cardinality(store) = 2
  /\ \E repo \in store :
       /\ repo.id = 1
       /\ [repo EXCEPT !.files = <<>>, !.last_ingested = NoTime] = NewRepository(<<>>)

\* C18 witness: the record update has written other files and a time into
\* the synced repository's row
C18_Witness ==
  \E r \in Runs :
    /\ Succeeded(r)
    /\ \E repo \in RowsOf(r) :
         /\ repo.last_ingested # NoTime
         /\ repo.files # run[r].repository.files
    /\ OtherRepository \in store

\* the paths whose DELETE raised in run r
DeleteFailed(r) ==
  UNION {run[r].calls[i].paths : i \in {j \in CallsAt(r, "delete") : ~run[r].calls[j].ok}}
\* run r has called the fetcher
Fetched(r) == CallsAt(r, "fetch") # {}

\* C22: a run that ended with "Sync completed successfully!" has printed a
\* message for every path whose fetch failed and for every path whose delete
\* failed.
C22_FailuresReported ==
  \A r \in Runs :
    Succeeded(r) =>
      /\ DeleteFailed(r) \subseteq Warned(run[r].calls)
      /\ Fetched(r) => FetchFailed(r) \subseteq Warned(run[r].calls)

\* C23: a run ends in an error only on a failure of a call that is not
\* about one path (the listing, the knowledge-base lookup, the batch insert,
\* the record update), and a run that asked the fetcher for at least one path
\* and got none does not end in success.
C23_ZeroFetchedFails ==
  \A r \in Runs :
    /\ (run[r].pc = "done" /\ run[r].outcome = "error" /\ run[r].calls # <<>>) =>
         LET last == run[r].calls[Len(run[r].calls)]
         IN  ~last.ok /\ last.op \in {"get", "insert", "update"}
    /\ (run[r].pc = "done" /\ Fetched(r) /\ Wanted(r) # {} /\ run[r].loaded_files = <<>>) =>
         run[r].outcome # "success"

\* C25: until the user has confirmed, and after the user has declined, a run
\* has issued no call and the record is as the run found it; a run that finds
\* an empty listing against a stored manifest that is not empty puts every
\* stored entry in deleted and asks, and it ends in an error only when a call
\* made after the confirmation raised.
C25_NothingWithoutConfirmation ==
  \A r \in Runs :
    /\ (run[r].pc \in {"discover", "confirm"} \/ run[r].outcome = "cancelled") =>
         /\ run[r].calls = <<>>
         /\ run[r].repository \in store
    /\ (Diffed(r) /\ run[r].current_files = <<>> /\ run[r].repository.files # <<>>) =>
         /\ run[r].changes.deleted = DictOf(run[r].repository.files)
         /\ run[r].outcome # "up_to_date"
    /\ (run[r].outcome = "error" /\ run[r].changes.deleted # <<>>) =>
         /\ run[r].calls # <<>>
         /\ ~run[r].calls[Len(run[r].calls)].ok

\* C25 witness: the branch lists nothing, the stored manifest lists a file,
\* the user declined, and the row and the index are as they were
C25_Witness ==
  \E r \in Runs :
    /\ run[r].pc = "done"
    /\ run[r].outcome = "cancelled"
    /\ run[r].current_files = <<>>
    /\ run[r].repository.files # <<>>
    /\ run[r].repository \in store
    /\ IndexPaths = PathsOf(run[r].repository.files)
    /\ run[r].calls = <<>>

(***************************************************************************)
(* Properties of a sync run and the next, checked under SpecRetry          *)
(***************************************************************************)
\* run `next` has diffed the listing run `first` had diffed
SameListing(first, next) ==
  Diffed(next) /\ run[next].current_files = run[first].current_files

\* C24: a path whose fetch failed in a run that ended in success is new or
\* modified in the ChangeSet the next run computes from the same listing.
C24_FailedFetchRetried ==
  (Succeeded(1) /\ SameListing(1, 2)) =>
    \A p \in FetchFailed(1) :
      p \in PathsOf(run[2].changes.new) \cup PathsOf(run[2].changes.modified)

\* run r ended in the handler of a batch insert that raised, after at least
\* one DELETE
AbortedAtInsert(r) ==
  /\ run[r].pc = "done"
  /\ run[r].outcome = "error"
  /\ CallsAt(r, "delete") # {}
  /\ \E i \in CallsAt(r, "insert") : i = Len(run[r].calls) /\ ~run[r].calls[i].ok

\* C29: the run that follows a run aborted at its insert, against the same
\* listing, computes the ChangeSet the aborted run computed, and when it ends
\* in success without a failed call or fetch the paths of the stored manifest
\* are the paths of the index.
C29_RetryAfterAbort ==
  (AbortedAtInsert(1) /\ SameListing(1, 2)) =>
    /\ run[2].changes = run[1].changes
    /\ CleanRun(2) =>
         \A repo \in RowsOf(2) : PathsOf(repo.files) = IndexPaths

(***************************************************************************)
(* Properties of the knowledge-base name, checked under SpecName           *)
(***************************************************************************)
\* kb is "kb_", then repo_name with "_" in the place of every "/" and "-" and
\* every other character kept, then "_", then branch as it is
IsKbNameOf(kb, repo_name, branch) ==
  LET n == Len(repo_name)
  IN  /\ Len(kb) = 3 + n + 1 + Len(branch)
      /\ kb[1] = "k" /\ kb[2] = "b" /\ kb[3] = "_"
      /\ \A i \in 1..n :
           kb[3 + i] = IF repo_name[i] \in {"/", "-"} THEN "_" ELSE repo_name[i]
      /\ kb[n + 4] = "_"
      /\ \A i \in 1..Len(branch) : kb[n + 4 + i] = branch[i]

\* "kb_octo_Repo_X_main"
KbOctoRepoXMain ==
  <<"k", "b", "_", "o", "c", "t", "o", "_", "R", "e", "p", "o", "_", "X", "_",
    "m", "a", "i", "n">>

\* C17: the name computed by _get_kb_name and the name computed by the MCP
\* query tool are both "kb_" + repo_name with every "/" and "-" replaced by
\* "_" + "_" + branch; for "octo/Repo-X" and "main" it is "kb_octo_Repo_X_main".
C17_KbName ==
  \A who \in {"client", "tool"} :
    name_out[who] # NoName =>
      /\ IsKbNameOf(name_out[who], name_in.repo_name, name_in.branch)
      /\ (name_in.repo_name = OctoRepoX /\ name_in.branch = Main) =>
           name_out[who] = KbOctoRepoXMain

\* C17 witness: both have computed the name of "octo/Repo-X" on "main"
C17_Witness ==
  /\ name_in.repo_name = OctoRepoX
  /\ name_in.branch = Main
  /\ name_out.client = KbOctoRepoXMain
  /\ name_out.tool = KbOctoRepoXMain

(***************************************************************************)
(* Properties of ingest and delete, checked under SpecRepo                 *)
(***************************************************************************)
\* the rows add_repository wrote since the ingest command started
CreatedByRun == {row \in store : row.created_at >= ingest_run.started}

\* C14: while the ingest command has not had its kb.insert return, and after
\* it failed at or before the insert, the table holds no row created by it.
C14_RecordAfterInsert ==
  (ingest_run.pc # "idle" /\ ~ingest_run.inserted) => CreatedByRun = {}

\* C14 witness: an ingest whose insert raised for a repository never ingested
\* before, and the table holds no row of that name
C14_Witness ==
  /\ ingest_run.pc = "done"
  /\ ingest_run.outcome = "error"
  /\ ingest_run.kb # NoKb
  /\ ~ingest_run.inserted
  /\ \A row \in store : row.name # ingest_run.repo_name

\* C15: no two rows of the table have the same name, and an add_repository
\* that failed has written no row.
C15_UniqueName ==
  /\ \A row1, row2 \in store : row1.name = row2.name => row1 = row2
  /\ ingest_run.warned => CreatedByRun = {}

\* C15 witness: add_repository failed for a name ingested before on another
\* branch, and the row of the first ingest is the only one
C15_Witness ==
  /\ ingest_run.warned
  /\ Cardinality(store) = 1
  /\ \E row \in store :
       /\ row.name = ingest_run.repo_name
       /\ row.branch # ingest_run.branch
       /\ row.created_at < ingest_run.started

\* C16: a confirmed deletion whose knowledge-base drop failed does not end
\* with the message that the repository and its knowledge base were deleted.
C16_DropFailureReported ==
  (delete_run.pc = "done" /\ delete_run.drop = "failed") =>
    delete_run.outcome # "success"

\* C19: the rows of one knowledge base all come from one repository and branch.
C19_OneRepositoryPerKb ==
  \A x, y \in kb_rows :
    x.kb = y.kb => (x.repository = y.repository /\ x.branch = y.branch)

\* the ingest command has printed its success message
Ingested == ingest_run.pc = "done" /\ ingest_run.outcome = "success"

\* C27: after an ingest that has created a record, the paths of the record's
\* manifest are the paths of the rows the ingest inserted.
C27_ManifestEqualsInserted ==
  Ingested =>
    \A row \in CreatedByRun :
      PathsOf(row.files) = {x.id : x \in KbRows(ingest_run.kb, ingest_run.repo_name,
                                                ingest_run.branch, ingest_run.files)}

\* C28: after an ingest that has reported success for a name and a branch,
\* the table holds a row of that name and branch whose files are the manifest
\* the command discovered.
C28_SuccessMeansRecorded ==
  Ingested =>
    \E row \in store :
      /\ row.name = ingest_run.repo_name
      /\ row.branch = ingest_run.branch
      /\ row.files = ingest_run.discovered_files

(***************************************************************************)
(* Properties of concurrent sync runs, checked under SpecConc              *)
(***************************************************************************)
\* the stored manifest of the synced repository lists path p with the sha of
\* p's row in the index, or neither has p
Matches(p) ==
  \A repo \in store :
    repo.name = "octo/docs" =>
      IF index[p] = NoSha THEN p \notin PathsOf(repo.files)
      ELSE Lists(repo.files, p, index[p])

\* C20: nothing makes a sync run wait for another that is under way: a run
\* can be started, and a run that stands at a delete, at the insert or at the
\* record update can take that step, whatever the position of the other run
\* and whoever wrote the row last.
C20_NothingSerializes ==
  \A r, other \in Runs :
    (r # other /\ run[other].pc \notin {"idle", "done"}) =>
      /\ (run[r].pc \in {"idle", "done"} /\ syncs < MaxSyncs) => ENABLED Select(r)
      /\ run[r].pc = "delete" => ENABLED DeleteNext(r)
      /\ run[r].pc = "insert" => ENABLED Insert(r)
      /\ run[r].pc = "update" => ENABLED Update(r)

\* C20 witness: both runs have ended in success, each without a failed
\* delete, fetch or insert and without a push between its listing and its
\* record update; the second had read the row before the first wrote it, and
\* the stored manifest and the index disagree on a path
C20_Witness ==
  /\ \A r \in Runs : CleanRun(r)
  /\ \A r \in Runs : run[r].repository.last_ingested = NoTime
  /\ \E p \in Paths : ~Matches(p)

(***************************************************************************)
(* Properties of a sync run beside a deletion, checked under SpecGone      *)
(***************************************************************************)
\* the step of run r from the record update to the end of the run
UpdateStep(r) == run[r].pc = "update" /\ run'[r].pc = "done"

\* C21: a run whose record update ends with "Sync completed successfully!"
\* has written the fresh listing and the time into the repository's row; when
\* the row is gone or the store raises, the run ends in an error.
C21_UpdateFailureReported ==
  [][\A r \in Runs :
       (UpdateStep(r) /\ run'[r].outcome = "success") =>
         \E repo \in store' :
           /\ repo.id = run[r].repository.id
           /\ repo.files = discover_files(upstream)
           /\ repo.last_ingested = clock]_vars

====
